---- MODULE Spec2Model ----
(***************************************************************************)
(* A model of axosync (src/src/main.rs): the /sourcemapSet handler, which  *)
(* loads sourcemap.json, applies a batch of path-addressed requests to the *)
(* tree in memory and saves it, served by an actix HttpServer with one     *)
(* worker.                                                                 *)
(***************************************************************************)
EXTENDS Integers, Sequences, FiniteSets, TLC

\* ------------------------------------------------------------------ bounds

\* Number of /sourcemapSet requests the clients send in the server model.
NumReq == 2

\* Longest batch (requests per POST body) in the patch-engine model.
MaxBatch == 2

Req == 1..NumReq

\* ------------------------------------------------------- SourcemapInstance

\* Option<T>: None is the empty sequence, Some(v) a sequence of one element.
None == <<>>

Some(v) == <<v>>

\* struct SourcemapInstance
SourcemapInstance(name, class_name, plugin_managed, file_paths, children) ==
    [name |-> name, class_name |-> class_name, plugin_managed |-> plugin_managed,
     file_paths |-> file_paths, children |-> children]

\* #[derive(Default)]: empty strings, false, empty vectors.
\* Default for SourcemapInstance, were the default root given a name.
DefaultInstanceNamed == SourcemapInstance("sourcemap", "", FALSE, <<>>, <<>>)

DefaultInstance == SourcemapInstance("", "", FALSE, <<>>, <<>>)

\* SerializedKeys, were pluginManaged skipped when true instead of when false.
SerializedKeysSkippingTrue(t) ==
    {"name", "className"}
        \cup (IF t.plugin_managed THEN {} ELSE {"pluginManaged"})
        \cup (IF t.file_paths = <<>> THEN {} ELSE {"filePaths"})
        \cup (IF t.children = <<>> THEN {} ELSE {"children"})

\* The keys serde writes for an instance: rename_all = "camelCase";
\* pluginManaged is skipped when false, filePaths and children when empty.
SerializedKeys(t) ==
    {"name", "className"}
        \cup (IF t.plugin_managed THEN {"pluginManaged"} ELSE {})
        \cup (IF t.file_paths = <<>> THEN {} ELSE {"filePaths"})
        \cup (IF t.children = <<>> THEN {} ELSE {"children"})

RECURSIVE Serialize(_)
\* serde_json::to_string_pretty(self): the JSON object of an instance.
Serialize(t) ==
    [k \in SerializedKeys(t) |->
        CASE k = "name" -> t.name
          [] k = "className" -> t.class_name
          [] k = "pluginManaged" -> t.plugin_managed
          [] k = "filePaths" -> t.file_paths
          [] k = "children" ->
                [i \in 1..Len(t.children) |-> Serialize(t.children[i])]]

RECURSIVE Deserialize(_)
\* serde_json::from_str(&data): a missing key takes the field's default.
Deserialize(d) ==
    SourcemapInstance(
        IF "name" \in DOMAIN d THEN d["name"] ELSE "",
        IF "className" \in DOMAIN d THEN d["className"] ELSE "",
        IF "pluginManaged" \in DOMAIN d THEN d["pluginManaged"] ELSE FALSE,
        IF "filePaths" \in DOMAIN d THEN d["filePaths"] ELSE <<>>,
        IF "children" \in DOMAIN d
            THEN [i \in 1..Len(d["children"]) |-> Deserialize(d["children"][i])]
            ELSE <<>>)

\* A sourcemap.json whose content is no JSON document (the text `{`): the
\* marker stands for the text, which serde_json::from_str rejects.
NotJson == [text |-> "{"]

\* Whether SourcemapInstance::load returns Ok on `file`: the file does not
\* exist, or from_str parses its content.
Parses(file) == IF file = None THEN TRUE ELSE "text" \notin DOMAIN file[1]

\* SourcemapInstance::load on a file system whose sourcemap.json is `file`
\* (None when the file does not exist).
load(file) ==
    IF file = None THEN DefaultInstance ELSE Deserialize(file[1])

\* SourcemapInstance::save: fs::write replaces the file's content in full.
save(t) == Some(Serialize(t))

\* find_first_child_mut, were the last child of the name the one found.
find_last_child_mut(children, name) ==
    IF \E i \in 1..Len(children) : children[i].name = name
        THEN CHOOSE i \in 1..Len(children) :
                /\ children[i].name = name
                /\ \A j \in (i + 1)..Len(children) : children[j].name # name
        ELSE 0

\* Index of the first child named `name` (0 when there is none): the element
\* `children.iter_mut().find(|child| child.name == name)` returns.
find_first_child_mut(children, name) ==
    IF \E i \in 1..Len(children) : children[i].name = name
        THEN CHOOSE i \in 1..Len(children) :
                /\ children[i].name = name
                /\ \A j \in 1..(i - 1) : children[j].name # name
        ELSE 0

\* -------------------------------------------------------- SourcemapSetRequest

\* struct SourcemapSetRequest
SourcemapSetRequest(path, value, no_overwrite_children) ==
    [path |-> path, value |-> value, no_overwrite_children |-> no_overwrite_children]

\* What applying one request gives: the new tree, or the error of the `?`.
Applied(t) == [ok |-> TRUE, top |-> t, err |-> <<>>]

Rejected(t, err) == [ok |-> FALSE, top |-> t, err |-> err]

\* ErrorBadRequest(anyhow!("Path cannot be empty when setting top-level value"))
EmptyPathError == <<"Path cannot be empty when setting top-level value">>

\* NotMemberError, were the node's name and class_name passed in the other
\* order.
NotMemberErrorSwapped(name, current_class_name, current_name) ==
    <<"\"", name, "\" is not a valid member of ", current_name, " ", current_class_name>>

\* ErrorBadRequest(anyhow!("\"{}\" is not a valid member of {} {}", name,
\* current_class_name, current_name)): the message as its pieces.
NotMemberError(name, current_class_name, current_name) ==
    <<"\"", name, "\" is not a valid member of ", current_class_name, " ", current_name>>

\* UpsertChild, were no_overwrite_children ignored.
UpsertChildOverwriting(current, name, value, no_overwrite_children) ==
    LET i == find_first_child_mut(current.children, name) IN
    IF i # 0
        THEN [current EXCEPT !.children[i] = value]
        ELSE [current EXCEPT !.children = Append(@, value)]

\* UpsertChild, were the value pushed without looking for a child to replace.
UpsertChildByPush(current, name, value, no_overwrite_children) ==
    [current EXCEPT !.children = Append(@, value)]

\* UpsertChild, were the value given the name of the last segment.
UpsertChildRenaming(current, name, value, no_overwrite_children) ==
    LET i == find_first_child_mut(current.children, name)
        named == [value EXCEPT !.name = name]
    IN  IF i # 0
            THEN [current EXCEPT !.children[i] =
                    IF no_overwrite_children
                        THEN [named EXCEPT !.children = current.children[i].children]
                        ELSE named]
            ELSE [current EXCEPT !.children = Append(@, named)]

\* UpsertChild, were a value of an absent name put first among the children.
UpsertChildPrepending(current, name, value, no_overwrite_children) ==
    LET i == find_first_child_mut(current.children, name) IN
    IF i # 0
        THEN [current EXCEPT !.children[i] =
                IF no_overwrite_children
                    THEN [value EXCEPT !.children = current.children[i].children]
                    ELSE value]
        ELSE [current EXCEPT !.children = <<value>> \o @]

\* `if let Some(mut value) = req.value` at the node the walk reached.
UpsertChild(current, name, value, no_overwrite_children) ==
    LET i == find_first_child_mut(current.children, name) IN
    IF i # 0
        THEN [current EXCEPT !.children[i] =
                IF no_overwrite_children
                    THEN [value EXCEPT !.children = current.children[i].children]
                    ELSE value]
        ELSE [current EXCEPT !.children = Append(@, value)]

\* RetainChildren, were only the first child of the name removed.
RemoveFirstChild(current, name) ==
    LET i == find_first_child_mut(current.children, name) IN
    IF i = 0
        THEN current
        ELSE [current EXCEPT !.children =
                SubSeq(@, 1, i - 1) \o SubSeq(@, i + 1, Len(@))]

\* RetainChildren, were the children kept left in the reverse order.
RetainChildrenReversing(current, name) ==
    LET kept == SelectSeq(current.children, LAMBDA child : child.name # name) IN
    [current EXCEPT !.children = [i \in 1..Len(kept) |-> kept[Len(kept) + 1 - i]]]

\* `current.children.retain(|child| &child.name != name)`
RetainChildren(current, name) ==
    [current EXCEPT !.children = SelectSeq(@, LAMBDA child : child.name # name)]

\* The last segment at the node reached: upsert when a value is given,
\* retain otherwise.
SetAtParent(current, name, req) ==
    IF req.value # None
        THEN UpsertChild(current, name, req.value[1], req.no_overwrite_children)
        ELSE RetainChildren(current, name)

RECURSIVE WalkAndCreate(_, _, _)
\* WalkAndSet, were a missing intermediate node created instead of reported.
WalkAndCreate(current, path, req) ==
    IF Len(path) = 1
        THEN Applied(SetAtParent(current, path[1], req))
        ELSE LET i == find_first_child_mut(current.children, path[1])
                 made == IF i # 0
                            THEN current
                            ELSE [current EXCEPT !.children = Append(@,
                                    SourcemapInstance(path[1], "", FALSE, <<>>, <<>>))]
                 j == find_first_child_mut(made.children, path[1])
                 sub == WalkAndCreate(made.children[j], Tail(path), req)
             IN  Applied([made EXCEPT !.children[j] = sub.top])

RECURSIVE WalkAndSet(_, _, _)
\* The walk `current = current.find_first_child_mut(name)?` over all but the
\* last segment of `path`, then the change at the node reached; the mutable
\* borrow is a functional update of the node on the way back.
WalkAndSet(current, path, req) ==
    IF Len(path) = 1
        THEN Applied(SetAtParent(current, path[1], req))
        ELSE LET i == find_first_child_mut(current.children, path[1]) IN
             IF i = 0
                THEN Rejected(current,
                        NotMemberError(path[1], current.class_name, current.name))
                ELSE LET sub == WalkAndSet(current.children[i], Tail(path), req) IN
                     IF sub.ok
                        THEN Applied([current EXCEPT !.children[i] = sub.top])
                        ELSE Rejected(current, sub.err)

\* ApplyRequest, were a request with an empty path and no value taken as
\* the deletion of the whole tree.
ApplyRequestClearingRoot(top, req) ==
    IF req.path = <<>>
        THEN IF req.value = None
                THEN Applied(DefaultInstance)
                ELSE Applied(req.value[1])
        ELSE WalkAndSet(top, req.path, req)

\* ApplyRequest, were no_overwrite_children honoured at the root too.
ApplyRequestKeepingChildren(top, req) ==
    IF req.path = <<>>
        THEN IF req.value = None
                THEN Rejected(top, EmptyPathError)
                ELSE Applied(IF req.no_overwrite_children
                                THEN [req.value[1] EXCEPT !.children = top.children]
                                ELSE req.value[1])
        ELSE WalkAndSet(top, req.path, req)

\* One iteration of `for req in requests` on the tree `top`.
ApplyRequest(top, req) ==
    IF req.path = <<>>
        THEN IF req.value = None
                THEN Rejected(top, EmptyPathError)
                ELSE Applied(req.value[1])
        ELSE WalkAndSet(top, req.path, req)

RECURSIVE ApplyBatch(_, _)
\* The whole loop of sourcemap_set on `top`: stops at the first `?`.
ApplyBatch(top, requests) ==
    IF requests = <<>>
        THEN Applied(top)
        ELSE LET r == ApplyRequest(top, Head(requests)) IN
             IF r.ok THEN ApplyBatch(r.top, Tail(requests)) ELSE r

\* ------------------------------------------------------------ input sets

Leaf(name, class_name) == SourcemapInstance(name, class_name, FALSE, <<>>, <<>>)

Folder(name, children) == SourcemapInstance(name, "Folder", FALSE, <<>>, children)

Game(children) == SourcemapInstance("game", "DataModel", FALSE, <<>>, children)

\* The values the clients send.
valueA == Leaf("A", "Folder")

valueA2 ==
    SourcemapInstance("A", "Script", TRUE, <<"a.lua">>, <<Leaf("B", "Part")>>)

valueB == Leaf("B", "Folder")

Values == {valueA, valueA2, valueB}

\* The trees sourcemap.json holds when the patch-engine model starts: no
\* file, no children, nested children, and siblings sharing a name.
PatchTrees ==
    { Game(<<>>),
      Game(<<Folder("A", <<Leaf("B", "Script")>>)>>),
      Game(<<Leaf("A", "Script"), Folder("A", <<Leaf("B", "Part")>>)>>),
      Game(<<Folder("A", <<Leaf("B", "Part"), Leaf("A", "Part"), Leaf("B", "Script")>>),
             Leaf("B", "Script"), Leaf("B", "Folder")>>) }

PatchFiles == {None} \cup {save(t) : t \in PatchTrees}

PatchPaths ==
    {<<>>, <<"A">>, <<"B">>, <<"A", "A">>, <<"A", "B">>, <<"B", "A">>,
     <<"A", "B", "A">>}

\* Every request over the paths and values: a delete, or an upsert with
\* either flag.
PatchRequests ==
    {SourcemapSetRequest(p, None, FALSE) : p \in PatchPaths}
        \cup {SourcemapSetRequest(p, Some(v), f) :
                p \in PatchPaths, v \in Values, f \in BOOLEAN}

SeqsUpTo(S, n) == UNION {[1..k -> S] : k \in 0..n}

PatchBatches == SeqsUpTo(PatchRequests, MaxBatch)

\* The files of the server model, and the batches its clients send: two
\* that succeed on any tree, the empty batch, one that replaces the root
\* and then fails, and three more that fail.
ServerFiles == {None, save(Game(<<Folder("A", <<>>)>>))}

ClientBatches ==
    { <<SourcemapSetRequest(<<"A">>, Some(valueA2), FALSE)>>,
      <<SourcemapSetRequest(<<"B">>, Some(valueB), TRUE)>>,
      <<>>,
      <<SourcemapSetRequest(<<>>, Some(Game(<<>>)), FALSE),
        SourcemapSetRequest(<<"A">>, Some(valueA), FALSE),
        SourcemapSetRequest(<<>>, None, FALSE)>>,
      <<SourcemapSetRequest(<<>>, None, FALSE)>>,
      <<SourcemapSetRequest(<<"B">>, Some(valueB), FALSE),
        SourcemapSetRequest(<<"B", "A", "B">>, Some(valueB), FALSE)>>,
      <<SourcemapSetRequest(<<"A", "B">>, None, FALSE)>> }

\* ------------------------------------------------------------ the scrape

\* File names and path strings are sequences of bytes. The names of the
\* model: `a`, `a.b` and `b`.
FileNames == {<<97>>, <<97, 46, 98>>, <<98>>}

\* The entries below the scrape directory, each the sequence of file names
\* leading to it.
EntryPaths == {<<n>> : n \in FileNames} \cup {<<n, m>> : n, m \in FileNames}

\* The directory trees: every entry's directory is an entry too.
FileSystems ==
    {t \in SUBSET EntryPaths :
        \A p \in t : Len(p) > 1 => SubSeq(p, 1, Len(p) - 1) \in t}

\* The orders in which a file system may hand out the names of a directory.
Enumerations ==
    {e \in [1..Cardinality(FileNames) -> FileNames] :
        \A i, j \in DOMAIN e : e[i] = e[j] => i = j}

Queries == {"first", "second"}

RECURSIVE ByteLess(_, _)
\* Ord for str and OsStr: byte by byte, a proper prefix first.
ByteLess(s, t) ==
    IF s = <<>> THEN t # <<>>
    ELSE IF t = <<>> THEN FALSE
    ELSE IF Head(s) = Head(t) THEN ByteLess(Tail(s), Tail(t))
    ELSE Head(s) < Head(t)

\* fs::read_dir inside WalkDir: the names of the entries of `dir`, in the
\* order the file system hands them out.
read_dir(tree, dir, order) ==
    SelectSeq(order, LAMBDA n : Append(dir, n) \in tree)

\* sort_by_file_name, were the entries left in the order read_dir gave.
keep_enumeration_order(names) == names

RECURSIVE sort_by_file_name(_)
\* sort_by_file_name: the entries of one directory sorted by
\* a.file_name().cmp(b.file_name()).
sort_by_file_name(names) ==
    IF names = <<>>
        THEN <<>>
        ELSE LET rest == sort_by_file_name(Tail(names))
                 before == SelectSeq(rest, LAMBDA n : ByteLess(n, Head(names)))
                 after == SelectSeq(rest, LAMBDA n : ~ByteLess(n, Head(names)))
             IN  before \o <<Head(names)>> \o after

RECURSIVE WalkEntriesContentsLast(_, _, _, _)
\* WalkEntries, were the contents of the directories yielded after all the
\* entries of the directory they are in.
WalkEntriesContentsLast(tree, dir, names, order) ==
    IF names = <<>>
        THEN <<>>
        ELSE LET path == Append(dir, Head(names)) IN
             <<path>>
                \o WalkEntriesContentsLast(tree, dir, Tail(names), order)
                \o WalkEntriesContentsLast(tree, path,
                        sort_by_file_name(read_dir(tree, path, order)), order)

RECURSIVE WalkEntries(_, _, _, _)
\* The iterator of WalkDir over the sorted entries `names` of `dir`: each
\* entry is yielded, then the contents of it, then the entries after it.
WalkEntries(tree, dir, names, order) ==
    IF names = <<>>
        THEN <<>>
        ELSE LET path == Append(dir, Head(names)) IN
             <<path>>
                \o WalkEntries(tree, path,
                        sort_by_file_name(read_dir(tree, path, order)), order)
                \o WalkEntries(tree, dir, Tail(names), order)

\* WalkDir::new(dir).sort_by_file_name(): the scrape directory itself first.
WalkDir(tree, order) ==
    <<<<>>>> \o WalkEntries(tree, <<>>,
                    sort_by_file_name(read_dir(tree, <<>>, order)), order)

\* The canonical form of config.file_paths_scrape_directory: `\\?\C:\d`.
ScrapeDirectory == <<92, 92, 63, 92, 67, 58, 92, 100>>

RECURSIVE canonicalize_utf8(_)
\* path.canonicalize_utf8(): the scrape directory, then `\` and the file
\* name for each step of the path.
canonicalize_utf8(path) ==
    IF path = <<>>
        THEN ScrapeDirectory
        ELSE canonicalize_utf8(SubSeq(path, 1, Len(path) - 1))
                \o <<92>> \o path[Len(path)]

\* `.as_str()[4..].replace("\\", "/")`
StripAndReplace(str) ==
    [i \in 1..(Len(str) - 4) |-> IF str[i + 4] = 92 THEN 47 ELSE str[i + 4]]

\* The vector `paths` that get_file_paths returns as a JSON array.
ScrapedPaths(tree, order) ==
    LET entries == WalkDir(tree, order) IN
    [i \in 1..Len(entries) |-> StripAndReplace(canonicalize_utf8(entries[i]))]

\* ------------------------------------------------------------------ state

VARIABLES
    file,       \* sourcemap.json: None, or Some(the JSON document)
    pc,         \* per request: "idle", "extracting", "ready", "loop", "done",
                \* "panicked"
    requests,   \* per request: the batch in its body
    top,        \* per request: the handler's local `top`
    next,       \* per request: index of the next element of the batch
    response,   \* per request: [status, body] (status 0: none yet)
    running,    \* the request whose handler the worker is running, or 0
    arrived,    \* the requests in the order the server received them
    loaded,     \* per request: the file its handler loaded
    log,        \* the loads, saves and rejections in the order they happened
    fs,         \* the entries below the scrape directory
    listing,    \* per query: None, or Some(the list of paths returned)
    enumeration \* per query: the order its read_dir calls gave the names in

scrapeVars == <<fs, listing, enumeration>>

vars == <<file, pc, requests, top, next, response, running, arrived, loaded, log,
          fs, listing, enumeration>>

NoResponse == [status |-> 0, body |-> <<>>]

Ok == [status |-> 200, body |-> <<>>]

\* actix_web::error::ErrorBadRequest: status 400 with the message as body.
ErrorBadRequest(err) == [status |-> 400, body |-> err]

Event(kind, r) == [kind |-> kind, req |-> r]

InitWith(files) ==
    /\ file \in files
    /\ pc = [r \in Req |-> "idle"]
    /\ requests = [r \in Req |-> <<>>]
    /\ top = [r \in Req |-> DefaultInstance]
    /\ next = [r \in Req |-> 1]
    /\ response = [r \in Req |-> NoResponse]
    /\ running = 0
    /\ arrived = <<>>
    /\ loaded = [r \in Req |-> None]
    /\ log = <<>>

\* The scrape directory `trees` may be, and no query made yet.
InitScrapeWith(trees) ==
    /\ fs \in trees
    /\ listing = [q \in Queries |-> None]
    /\ enumeration = [q \in Queries |-> <<>>]

\* --------------------------------------------------------------- actions

\* GET /getFilePaths: the whole handler, on a directory whose read_dir calls
\* give the names in `order`.
get_file_paths(q, order) ==
    /\ listing[q] = None
    /\ listing' = [listing EXCEPT ![q] = Some(ScrapedPaths(fs, order))]
    /\ enumeration' = [enumeration EXCEPT ![q] = order]
    /\ UNCHANGED <<file, pc, requests, top, next, response, running, arrived,
                   loaded, log, fs>>

\* A client's POST /sourcemapSet reaches the server: the worker accepts the
\* connection and routes the request to sourcemap_set, whose argument
\* web::Json<Vec<SourcemapSetRequest>> is still to be read from the body.
Arrive(r, batches) ==
    /\ pc[r] = "idle"
    /\ \E b \in batches : requests' = [requests EXCEPT ![r] = b]
    /\ pc' = [pc EXCEPT ![r] = "extracting"]
    /\ arrived' = Append(arrived, r)
    /\ UNCHANGED <<file, top, next, response, running, loaded, log>>

\* The Json extractor has read and parsed the whole body of r; connections
\* are separate tasks of the worker, so bodies complete in any order.
Extract(r) ==
    /\ pc[r] = "extracting"
    /\ pc' = [pc EXCEPT ![r] = "ready"]
    /\ UNCHANGED <<file, requests, top, next, response, running, arrived, loaded, log>>

\* WorkerFree, were handlers run on several workers (or the body suspended
\* between its load and its save).
WorkerAlwaysFree == TRUE

\* The one worker thread runs a handler body, which has no .await, to its
\* end before it polls another task.
WorkerFree == running = 0

\* let mut top = SourcemapInstance::load().unwrap(); when load returns Err:
\* unwrap panics, the task of the connection ends and the connection is
\* closed with no response written; the worker goes on with its other tasks.
LoadPanics(r) ==
    /\ pc[r] = "ready"
    /\ WorkerFree
    /\ ~Parses(file)
    /\ pc' = [pc EXCEPT ![r] = "panicked"]
    /\ log' = Append(log, Event("panic", r))
    /\ UNCHANGED <<file, requests, top, next, response, running, arrived, loaded>>

\* let mut top = SourcemapInstance::load().unwrap(); when load returns Ok.
Load(r) ==
    /\ pc[r] = "ready"
    /\ WorkerFree
    /\ Parses(file)
    /\ running' = r
    /\ top' = [top EXCEPT ![r] = load(file)]
    /\ loaded' = [loaded EXCEPT ![r] = file]
    /\ next' = [next EXCEPT ![r] = 1]
    /\ pc' = [pc EXCEPT ![r] = "loop"]
    /\ log' = Append(log, Event("load", r))
    /\ UNCHANGED <<file, requests, response, arrived>>

\* Reject, were the tree written back before the error is returned.
RejectAfterSaving(r, err) ==
    /\ response' = [response EXCEPT ![r] = ErrorBadRequest(err)]
    /\ pc' = [pc EXCEPT ![r] = "done"]
    /\ running' = IF running = r THEN 0 ELSE running
    /\ log' = Append(log, Event("reject", r))
    /\ file' = save(top[r])
    /\ UNCHANGED <<requests, top, next, arrived, loaded>>

\* A `?` of the loop returns the error: the handler ends without saving.
Reject(r, err) ==
    /\ response' = [response EXCEPT ![r] = ErrorBadRequest(err)]
    /\ pc' = [pc EXCEPT ![r] = "done"]
    /\ running' = IF running = r THEN 0 ELSE running
    /\ log' = Append(log, Event("reject", r))
    /\ UNCHANGED <<file, requests, top, next, arrived, loaded>>

\* Current, were every element of the batch applied to the tree as loaded.
CurrentAsLoaded(r) == load(loaded[r])

\* The tree the next element of the batch is applied to: the local `top`.
Current(r) == top[r]

\* One iteration of `for req in requests`.
Iterate(r) ==
    /\ pc[r] = "loop"
    /\ next[r] <= Len(requests[r])
    /\ LET res == ApplyRequest(Current(r), requests[r][next[r]]) IN
       IF res.ok
          THEN /\ top' = [top EXCEPT ![r] = res.top]
               /\ next' = [next EXCEPT ![r] = @ + 1]
               /\ UNCHANGED <<file, pc, requests, response, running, arrived, loaded, log>>
          ELSE Reject(r, res.err)

\* top.save().unwrap(); Ok(())
Save(r) ==
    /\ pc[r] = "loop"
    /\ next[r] > Len(requests[r])
    /\ file' = save(top[r])
    /\ response' = [response EXCEPT ![r] = Ok]
    /\ pc' = [pc EXCEPT ![r] = "done"]
    /\ running' = IF running = r THEN 0 ELSE running
    /\ log' = Append(log, Event("save", r))
    /\ UNCHANGED <<requests, top, next, arrived, loaded>>

\* The handler sourcemap_set of request r, step by step.
sourcemap_set(r) == Load(r) \/ Iterate(r) \/ Save(r)

\* The server: HttpServer with workers(1) serving the clients' requests.
Init == InitWith(ServerFiles) /\ InitScrapeWith({{}})

Next ==
    /\ \E r \in Req :
          \/ Arrive(r, ClientBatches)
          \/ Extract(r)
          \/ sourcemap_set(r)
    /\ UNCHANGED scrapeVars

Spec == Init /\ [][Next]_vars

\* The patch engine: one request, any batch, on any of the starting files.
InitPatch == InitWith(PatchFiles) /\ InitScrapeWith({{}})

NextPatch ==
    /\ \/ Arrive(1, PatchBatches)
       \/ Extract(1)
       \/ sourcemap_set(1)
    /\ UNCHANGED scrapeVars

SpecPatch == InitPatch /\ [][NextPatch]_vars

\* The server on a file system whose sourcemap.json may hold no JSON.
InitFaults == InitWith(ServerFiles \cup {Some(NotJson)}) /\ InitScrapeWith({{}})

NextFaults ==
    /\ \E r \in Req :
          \/ Arrive(r, ClientBatches)
          \/ Extract(r)
          \/ sourcemap_set(r)
          \/ LoadPanics(r)
    /\ UNCHANGED scrapeVars

SpecFaults == InitFaults /\ [][NextFaults]_vars

\* The scrape: two queries on any of the directory trees.
InitScrape == InitWith({None}) /\ InitScrapeWith(FileSystems)

NextScrape == \E q \in Queries : \E order \in Enumerations : get_file_paths(q, order)

SpecScrape == InitScrape /\ [][NextScrape]_vars

\* ------------------------------------------------------------ properties

Succeeded(r) == pc[r] = "done" /\ response[r].status = 200

Failed(r) == pc[r] = "done" /\ response[r].status = 400

\* The step in which the handler of r returns an error.
Rejects(r) == pc[r] = "loop" /\ pc'[r] = "done" /\ response'[r].status = 400

\* C1: batch atomicity on failure. While a handler runs its loop the file is
\* the one it loaded, and the step in which the handler returns an error
\* leaves the file exactly as it was loaded: nothing the earlier requests of
\* the batch changed in `top` (a replaced root included) is written.
C1_BatchAtomicOnFailure ==
    [][\A r \in Req :
          /\ pc[r] = "loop" => file = loaded[r]
          /\ Rejects(r) => file' = loaded[r]]_vars

\* A batch failed at its second request after its first one, which replaced
\* the root, had changed the tree in memory.
C1_Witness ==
    \E r \in Req :
        /\ Failed(r)
        /\ next[r] = 2
        /\ requests[r][1].path = <<>>
        /\ top[r] # load(loaded[r])
        /\ file = loaded[r]

\* The requests whose handlers saved, in the order of their saves.
Savers == [k \in 1..Len(SelectSeq(log, LAMBDA e : e.kind = "save")) |->
              SelectSeq(log, LAMBDA e : e.kind = "save")[k].req]

\* The file before any handler ran: the first load read it.
FirstFile == IF log = <<>> THEN file ELSE loaded[log[1].req]

RECURSIVE SerialFile(_, _)
\* The file after whole load-mutate-save cycles of the requests `rs`, one
\* after another, starting from the file `f`.
SerialFile(f, rs) ==
    IF rs = <<>>
        THEN f
        ELSE SerialFile(save(ApplyBatch(load(f), requests[Head(rs)]).top), Tail(rs))

\* C2: no lost update. At most one handler is between its load and its save;
\* in the history every load is followed at once by the save or the error of
\* the same request, so no load falls between another request's load and
\* save; and the file is what running the batches that were saved one after
\* another, in the order of their saves, makes of the first file.
C2_NoLostUpdate ==
    /\ Cardinality({r \in Req : pc[r] = "loop"}) <= 1
    /\ \A k \in 1..Len(log) :
          log[k].kind = "load" /\ k < Len(log)
              => log[k + 1].req = log[k].req /\ log[k + 1].kind # "load"
    /\ file = SerialFile(FirstFile, Savers)

\* Two requests were in flight together (the one that arrived second was
\* handled first), each changed the tree, and the file holds both changes.
C2_Witness ==
    \E r1, r2 \in Req :
        /\ r1 # r2
        /\ Succeeded(r1) /\ Succeeded(r2)
        /\ arrived = <<r2, r1>>
        /\ Savers = <<r1, r2>>
        /\ requests[r1] = <<SourcemapSetRequest(<<"A">>, Some(valueA2), FALSE)>>
        /\ requests[r2] = <<SourcemapSetRequest(<<"B">>, Some(valueB), TRUE)>>
        /\ find_first_child_mut(load(file).children, "A") # 0
        /\ find_first_child_mut(load(file).children, "B") # 0

\* Position in the history of the event of request r whose kind is in `kinds`
\* (0 when there is none).
Position(r, kinds) ==
    IF \E k \in 1..Len(log) : log[k].req = r /\ log[k].kind \in kinds
        THEN CHOOSE k \in 1..Len(log) : log[k].req = r /\ log[k].kind \in kinds
        ELSE 0

\* C3: arrival-order execution. If r1 arrived before r2 and the handler of
\* r2 has loaded, then the handler of r1 ended (saved, or returned its
\* error) before that load.
C3_ArrivalOrder ==
    \A i, j \in 1..Len(arrived) :
        i < j /\ Position(arrived[j], {"load"}) # 0
            => /\ Position(arrived[i], {"save", "reject"}) # 0
               /\ Position(arrived[i], {"save", "reject"})
                    < Position(arrived[j], {"load"})

\* Indices of the children named `name`.
Named(children, name) == {i \in 1..Len(children) : children[i].name = name}

Min(S) == CHOOSE i \in S : \A j \in S : i <= j

Front(path) == SubSeq(path, 1, Len(path) - 1)

Last(path) == path[Len(path)]

RECURSIVE HasNode(_, _)
\* Whether following `path` from t, by the first child of each name, finds
\* a node at every segment.
HasNode(t, path) ==
    \/ path = <<>>
    \/ /\ Named(t.children, Head(path)) # {}
       /\ HasNode(t.children[Min(Named(t.children, Head(path)))], Tail(path))

RECURSIVE NodeAt(_, _)
\* The node that following `path` from t, by the first child of each name,
\* ends at.
NodeAt(t, path) ==
    IF path = <<>>
        THEN t
        ELSE NodeAt(t.children[Min(Named(t.children, Head(path)))], Tail(path))

IsUpsert(req) == req.value # None

IsDelete(req) == req.value = None

\* C4: sequential composition within a batch. The tree a successful batch
\* saves is the one got by applying each request to the result of the one
\* before it. So a batch [upsert at p, delete at p] leaves the parent without
\* a child named by the last segment of p, and a batch [delete at p, upsert
\* at p] leaves the inserted value as the parent's last child and no other
\* child of that name: exactly one child of that name, the inserted value,
\* when the value is named by the segment.
C4_SequentialComposition ==
    \A r \in Req :
        Succeeded(r) /\ file = save(top[r]) =>
            LET b == requests[r]
                T == load(loaded[r])
                result == load(file)
            IN  /\ result = ApplyBatch(T, b).top
                /\ Len(b) = 2 /\ b[1].path = b[2].path /\ b[1].path # <<>> =>
                      LET children == NodeAt(result, Front(b[1].path)).children
                          name == Last(b[1].path)
                      IN  /\ IsUpsert(b[1]) /\ IsDelete(b[2]) =>
                                Named(children, name) = {}
                          /\ IsDelete(b[1]) /\ IsUpsert(b[2]) =>
                                /\ children # <<>>
                                /\ children[Len(children)] = b[2].value[1]
                                /\ Named(children, name) \subseteq {Len(children)}
                                /\ b[2].value[1].name = name =>
                                      Cardinality(Named(children, name)) = 1

\* The batch [delete A, upsert A] ran on a tree with two children named A
\* and left exactly one, the inserted value.
C4_Witness ==
    \E r \in Req :
        /\ Succeeded(r)
        /\ requests[r] = <<SourcemapSetRequest(<<"A">>, None, FALSE),
                           SourcemapSetRequest(<<"A">>, Some(valueA2), TRUE)>>
        /\ Cardinality(Named(load(loaded[r]).children, "A")) = 2
        /\ Cardinality(Named(load(file).children, "A")) = 1
        /\ load(file).children[Len(load(file).children)] = valueA2

\* Whether the value of every upsert of the batch with a non-empty path is
\* named by the last segment of its path.
NamedByPath(b) ==
    \A k \in 1..Len(b) :
        IsUpsert(b[k]) /\ b[k].path # <<>> => b[k].value[1].name = Last(b[k].path)

\* C5 as stated: a batch that succeeded succeeds again on the tree it saved
\* and gives that same tree (whatever the names of its values).
C5_Idempotent ==
    \A r \in Req :
        Succeeded(r) /\ file = save(top[r]) =>
            /\ ApplyBatch(load(file), requests[r]).ok
            /\ ApplyBatch(load(file), requests[r]).top = load(file)

\* C5, amended: every single request is idempotent when it is a delete, a
\* replacement of the root, or an upsert whose value is named by the last
\* segment of its path. Whenever such a request of a batch has been applied,
\* applying it again to the tree it gave succeeds and gives that tree again.
C5_RequestIdempotent ==
    \A r \in Req :
        next[r] > 1 /\ NamedByPath(<<requests[r][next[r] - 1]>>) =>
            /\ ApplyRequest(top[r], requests[r][next[r] - 1]).ok
            /\ ApplyRequest(top[r], requests[r][next[r] - 1]).top = top[r]

\* An upsert named by its path, with noOverwriteChildren, has been applied
\* to a parent with two children of that name, and changed the tree.
C5_Witness ==
    \E r \in Req :
        /\ next[r] = 2
        /\ requests[r][1] = SourcemapSetRequest(<<"A">>, Some(valueA2), TRUE)
        /\ Cardinality(Named(load(loaded[r]).children, "A")) = 2
        /\ top[r] # load(loaded[r])

\* The step in which the handler of r applies the next request of its batch.
Iterates(r) ==
    /\ pc[r] = "loop"
    /\ next[r] <= Len(requests[r])
    /\ next'[r] = next[r] + 1 \/ Rejects(r)

\* Whether the walk over all but the last segment of `path` misses a child
\* at segment k, having found one at every segment before it.
MissingAt(t, path, k) ==
    /\ k \in 1..(Len(path) - 1)
    /\ HasNode(t, SubSeq(path, 1, k - 1))
    /\ Named(NodeAt(t, SubSeq(path, 1, k - 1)).children, path[k]) = {}

\* C6: missing intermediate segment. A request with a non-empty path is
\* rejected exactly when some segment before the last has no child of its
\* name under the node reached so far; the response is then a 400 whose
\* message names that segment and the class_name and name of that node, the
\* walk has created no node in the tree in memory, and the file is left as
\* it was loaded.
C6_MissingIntermediate ==
    [][\A r \in Req :
          Iterates(r) /\ requests[r][next[r]].path # <<>> =>
              LET path == requests[r][next[r]].path IN
              /\ Rejects(r) <=> \E k \in 1..Len(path) : MissingAt(top[r], path, k)
              /\ Rejects(r) =>
                    /\ \A k \in 1..Len(path) :
                          MissingAt(top[r], path, k) =>
                              LET node == NodeAt(top[r], SubSeq(path, 1, k - 1)) IN
                              /\ response'[r].status = 400
                              /\ response'[r].body =
                                    <<"\"", path[k], "\" is not a valid member of ",
                                      node.class_name, " ", node.name>>
                    /\ top'[r] = top[r]
                    /\ file' = file
                    /\ file' = loaded[r]]_vars

\* A batch changed the tree in memory and then failed on the path A/B/A at
\* B, missing under the first child named A (a Script), though a later
\* child named A has a child B.
C6_Witness ==
    \E r \in Req :
        /\ Failed(r)
        /\ next[r] = 2
        /\ requests[r][2].path = <<"A", "B", "A">>
        /\ response[r].body = NotMemberError("B", "Script", "A")
        /\ top[r] # load(loaded[r])
        /\ Cardinality(Named(top[r].children, "A")) = 2
        /\ file = loaded[r]

\* The step in which the handler of r applies a request with a non-empty
\* path and goes on to the next one.
Sets(r) ==
    /\ Iterates(r)
    /\ ~Rejects(r)
    /\ requests[r][next[r]].path # <<>>

\* C7: children preservation. When an upsert with noOverwriteChildren = true
\* finds a child of the target name under the parent it reached, the node at
\* the index of the first such child becomes the value with its children
\* replaced by the children that child had: name, class_name, plugin_managed
\* and file_paths are the value's, the children (whole subtrees, in order)
\* are the old child's, and none of the value's children is taken.
C7_ChildrenPreserved ==
    [][\A r \in Req :
          LET req == requests[r][next[r]]
              parent == NodeAt(top[r], Front(req.path))
              name == Last(req.path)
          IN  /\ Sets(r)
              /\ IsUpsert(req)
              /\ req.no_overwrite_children
              /\ Named(parent.children, name) # {}
              => LET i == Min(Named(parent.children, name))
                     after == NodeAt(top'[r], Front(req.path))
                     value == req.value[1]
                 IN  /\ HasNode(top'[r], Front(req.path))
                     /\ Len(after.children) = Len(parent.children)
                     /\ after.children[i].children = parent.children[i].children
                     /\ after.children[i].name = value.name
                     /\ after.children[i].class_name = value.class_name
                     /\ after.children[i].plugin_managed = value.plugin_managed
                     /\ after.children[i].file_paths = value.file_paths]_vars

\* An upsert of valueA2 (a Script with a child B that is a Part) with
\* noOverwriteChildren replaced a Folder A whose child B is a Script: the
\* new node is the Script with the old child.
C7_Witness ==
    \E r \in Req :
        /\ next[r] = 2
        /\ requests[r][1] = SourcemapSetRequest(<<"A">>, Some(valueA2), TRUE)
        /\ load(loaded[r]) = Game(<<Folder("A", <<Leaf("B", "Script")>>)>>)
        /\ top[r] = Game(<<SourcemapInstance("A", "Script", TRUE, <<"a.lua">>,
                                             <<Leaf("B", "Script")>>)>>)

RECURSIVE WithNodeAt(_, _, _)
\* The tree t with the node that following `path`, by the first child of
\* each name, ends at replaced by `node`, and nothing else changed.
WithNodeAt(t, path, node) ==
    IF path = <<>>
        THEN node
        ELSE LET i == Min(Named(t.children, Head(path))) IN
             [t EXCEPT !.children[i] = WithNodeAt(t.children[i], Tail(path), node)]

\* C8: first match wins. A request with a non-empty path changes the tree
\* only at the node that following all but its last segment, by the first
\* child of each name in list order, ends at. An upsert that finds children
\* of the target name there replaces the first of them, at its index, and
\* leaves every other child, the later ones of that name included, as it was.
C8_FirstMatchWins ==
    [][\A r \in Req :
          LET req == requests[r][next[r]]
              parent == NodeAt(top[r], Front(req.path))
              name == Last(req.path)
          IN  Sets(r) =>
                /\ HasNode(top'[r], Front(req.path))
                /\ top'[r] = WithNodeAt(top[r], Front(req.path),
                                        NodeAt(top'[r], Front(req.path)))
                /\ NodeAt(top'[r], Front(req.path)) =
                      [parent EXCEPT !.children =
                          NodeAt(top'[r], Front(req.path)).children]
                /\ IsUpsert(req) /\ Named(parent.children, name) # {} =>
                      LET i == Min(Named(parent.children, name))
                          after == NodeAt(top'[r], Front(req.path)).children
                      IN  /\ Len(after) = Len(parent.children)
                          /\ \A j \in 1..Len(after) :
                                j # i => after[j] = parent.children[j]
                          /\ after[i] =
                                IF req.no_overwrite_children
                                    THEN [req.value[1] EXCEPT !.children =
                                            parent.children[i].children]
                                    ELSE req.value[1]]_vars

\* On a tree whose root has two children named B, an upsert at B/A went
\* under the first B, and an upsert at B then replaced the first B only.
C8_Witness ==
    \E r \in Req :
        /\ next[r] = 3
        /\ requests[r] = <<SourcemapSetRequest(<<"B", "A">>, Some(valueA), FALSE),
                           SourcemapSetRequest(<<"B">>, Some(valueB), TRUE)>>
        /\ Len(load(loaded[r]).children) = 3
        /\ Named(load(loaded[r]).children, "B") = {2, 3}
        /\ top[r].children[1] = load(loaded[r]).children[1]
        /\ top[r].children[2] = Folder("B", <<valueA>>)
        /\ top[r].children[3] = load(loaded[r]).children[3]

\* C9: delete removes all matches. A delete with a non-empty path leaves the
\* parent it reached with no child named by the last segment and with every
\* other child, in the same order; a parent whose children all have that
\* name is left with none.
C9_DeleteRemovesAll ==
    [][\A r \in Req :
          LET req == requests[r][next[r]]
              parent == NodeAt(top[r], Front(req.path))
              name == Last(req.path)
          IN  Sets(r) /\ IsDelete(req) =>
                LET after == NodeAt(top'[r], Front(req.path)).children IN
                /\ HasNode(top'[r], Front(req.path))
                /\ Named(after, name) = {}
                /\ after = SelectSeq(parent.children, LAMBDA c : c.name # name)
                /\ Len(after) = Len(parent.children) - Cardinality(Named(parent.children, name))
                /\ Named(parent.children, name) = 1..Len(parent.children) => after = <<>>]_vars

\* A delete of A at a root whose two children are both named A left the
\* root without children.
C9_Witness ==
    \E r \in Req :
        /\ next[r] = 2
        /\ requests[r][1] = SourcemapSetRequest(<<"A">>, None, FALSE)
        /\ Len(load(loaded[r]).children) = 2
        /\ Named(load(loaded[r]).children, "A") = {1, 2}
        /\ top[r].children = <<>>

\* C10 as stated: the error returned tells which request of the batch
\* failed, so two failures with the same response failed at the same index.
C10_ErrorIdentifiesIndex ==
    \A r1, r2 \in Req :
        Failed(r1) /\ Failed(r2) /\ response[r1] = response[r2]
            => next[r1] = next[r2]

\* Whether request k of the batch b, on the tree the requests before it
\* make of T, is one the handler rejects.
FailsAt(T, b, k) ==
    LET before == ApplyBatch(T, SubSeq(b, 1, k - 1)).top IN
    IF b[k].path = <<>>
        THEN b[k].value = None
        ELSE ~HasNode(before, Front(b[k].path))

\* C10, amended: when a batch fails, the error returned is that of the first
\* request of the batch, in order, that fails: a 400 whose message is either
\* that the path cannot be empty, or the missing segment with the class_name
\* and name of the node it was expected in. The message does not hold the
\* index of the request.
C10_ErrorOfFirstFailure ==
    \A r \in Req :
        Failed(r) =>
            LET b == requests[r]
                k == next[r]
                T == load(loaded[r])
            IN  /\ k \in 1..Len(b)
                /\ \A j \in 1..(k - 1) : ~FailsAt(T, b, j)
                /\ FailsAt(T, b, k)
                /\ top[r] = ApplyBatch(T, SubSeq(b, 1, k - 1)).top
                /\ response[r].status = 400
                /\ b[k].path = <<>> =>
                      response[r].body =
                          <<"Path cannot be empty when setting top-level value">>
                /\ b[k].path # <<>> =>
                      \E i \in 1..Len(b[k].path) :
                          /\ MissingAt(top[r], b[k].path, i)
                          /\ response[r].body =
                                <<"\"", b[k].path[i], "\" is not a valid member of ",
                                  NodeAt(top[r], SubSeq(b[k].path, 1, i - 1)).class_name,
                                  " ",
                                  NodeAt(top[r], SubSeq(b[k].path, 1, i - 1)).name>>

\* Two batches failed, one at its first request and one at its third, with
\* the same response; a third kind of failure names a segment and a node.
C10_Witness ==
    \E r1, r2 \in Req :
        /\ Failed(r1) /\ Failed(r2)
        /\ next[r1] = 1 /\ next[r2] = 3
        /\ response[r1] = response[r2]
        /\ response[r1].body = EmptyPathError

\* Whether the batch b holds a request with an empty path and no value.
HasEmptyDelete(b) ==
    \E k \in 1..Len(b) : b[k].path = <<>> /\ b[k].value = None

\* C11: an empty-address delete is rejected. The step that applies a request
\* with an empty path and no value returns a 400 with the empty-path message
\* and leaves the file as it was loaded; and no handler whose batch holds
\* such a request, at any index, ever saves: the file stays the one loaded.
C11_EmptyDeleteRejected ==
    [][\A r \in Req :
          /\ Iterates(r)
                /\ requests[r][next[r]].path = <<>>
                /\ requests[r][next[r]].value = None
                => /\ Rejects(r)
                   /\ response'[r].status = 400
                   /\ response'[r].body =
                         <<"Path cannot be empty when setting top-level value">>
                   /\ file' = loaded[r]
          /\ pc[r] = "loop" /\ HasEmptyDelete(requests[r])
                => /\ file' = loaded[r]
                   /\ pc'[r] = "done" => response'[r].status = 400]_vars

\* A batch changed the tree in memory with its first request and was
\* rejected at its second, an empty path without a value.
C11_Witness ==
    \E r \in Req :
        /\ Failed(r)
        /\ next[r] = 2
        /\ requests[r][2] = SourcemapSetRequest(<<>>, None, FALSE)
        /\ response[r].body = EmptyPathError
        /\ top[r] # load(loaded[r])
        /\ file = loaded[r]

\* C12: errors are not fatal and are surfaced. Every request whose handling
\* has ended got a response, 200 or an error status, so a failure (a
\* sourcemap.json that does not parse included) reaches the caller as an
\* error response.
C12_FailureSurfaced ==
    \A r \in Req :
        pc[r] \in {"done", "panicked"} => response[r].status \in {200, 400, 500}

\* The tree the claims call the empty default tree.
EmptyTree ==
    [name |-> "", class_name |-> "", plugin_managed |-> FALSE,
     file_paths |-> <<>>, children |-> <<>>]

\* C13: absent document. A handler that found no sourcemap.json starts its
\* loop on the empty default tree, and once it has succeeded (on the empty
\* batch too) the file exists and holds the result of its batch on the empty
\* default tree.
C13_AbsentDocument ==
    \A r \in Req :
        loaded[r] = None =>
            /\ pc[r] = "loop" /\ next[r] = 1 => top[r] = EmptyTree
            /\ Succeeded(r) =>
                  /\ file # None
                  /\ Deserialize(file[1]) = top[r]
                  /\ ApplyBatch(EmptyTree, requests[r]) = Applied(top[r])

\* The empty batch succeeded where there was no file, and created it.
C13_Witness ==
    \E r \in Req :
        /\ Succeeded(r)
        /\ loaded[r] = None
        /\ requests[r] = <<>>
        /\ file = Some([name |-> "", className |-> ""])

RECURSIVE OmitsDefaults(_, _)
\* Whether the JSON object d of tree t, and of every node below it, has the
\* keys name and className, pluginManaged only when true, and filePaths and
\* children only when not empty.
OmitsDefaults(d, t) ==
    /\ {"name", "className"} \subseteq DOMAIN d
    /\ DOMAIN d \subseteq {"name", "className", "pluginManaged", "filePaths", "children"}
    /\ "pluginManaged" \in DOMAIN d <=> t.plugin_managed
    /\ "filePaths" \in DOMAIN d <=> t.file_paths # <<>>
    /\ "children" \in DOMAIN d <=> t.children # <<>>
    /\ t.children # <<>> =>
          /\ Len(d["children"]) = Len(t.children)
          /\ \A i \in 1..Len(t.children) : OmitsDefaults(d["children"][i], t.children[i])

\* C14: save/load round trip. For every tree a successful batch saved (each
\* tree of the input sets, saved by the empty batch, among them), loading
\* the file gives the tree that was saved; the document written omits
\* pluginManaged when false and filePaths and children when empty, and is
\* made of the saved tree alone, whatever the file held before.
C14_RoundTrip ==
    \A r \in Req :
        Succeeded(r) =>
            /\ file # None
            /\ load(file) = top[r]
            /\ OmitsDefaults(file[1], top[r])

\* A document with children was replaced by one whose root has a child
\* written with all five keys next to a child written with two.
C14_Witness ==
    \E r \in Req :
        /\ Succeeded(r)
        /\ loaded[r] # None
        /\ "children" \in DOMAIN loaded[r][1]
        /\ file # loaded[r]
        /\ "children" \in DOMAIN file[1]
        /\ \E i, j \in 1..Len(file[1]["children"]) :
              /\ DOMAIN file[1]["children"][i] = {"name", "className"}
              /\ DOMAIN file[1]["children"][j] =
                    {"name", "className", "pluginManaged", "filePaths", "children"}

\* The index, among the children of `parent`, at which an upsert of `name`
\* puts its value: that of the first child of the name, or one past the end.
PutIndex(parent, name) ==
    IF Named(parent.children, name) # {}
        THEN Min(Named(parent.children, name))
        ELSE Len(parent.children) + 1

\* C17 as stated: after an upsert with a non-empty path, the node put under
\* the reached parent is named by the last segment of the path, whatever
\* the name of the value.
C17_LastSegmentNames ==
    [][\A r \in Req :
          Sets(r) /\ IsUpsert(requests[r][next[r]]) =>
              LET req == requests[r][next[r]]
                  parent == NodeAt(top[r], Front(req.path))
                  after == NodeAt(top'[r], Front(req.path))
              IN  after.children[PutIndex(parent, Last(req.path))].name
                      = Last(req.path)]_vars

\* C17: the last path segment selects the child to replace; the node put
\* under the reached parent carries the name, class_name, plugin_managed and
\* file_paths of the value, so its name is the last segment exactly when
\* the value's is.
C17_ValueNameKept ==
    [][\A r \in Req :
          Sets(r) /\ IsUpsert(requests[r][next[r]]) =>
              LET req == requests[r][next[r]]
                  value == req.value[1]
                  parent == NodeAt(top[r], Front(req.path))
                  after == NodeAt(top'[r], Front(req.path))
                  put == after.children[PutIndex(parent, Last(req.path))]
              IN  /\ PutIndex(parent, Last(req.path)) \in 1..Len(after.children)
                  /\ put.name = value.name
                  /\ put.class_name = value.class_name
                  /\ put.plugin_managed = value.plugin_managed
                  /\ put.file_paths = value.file_paths
                  /\ put.name = Last(req.path) <=> value.name = Last(req.path)]_vars

\* The upsert at path A of a value named B replaced the child named A: the
\* root is left with a child named B and none named A.
C17_Witness ==
    \E r \in Req :
        /\ Succeeded(r)
        /\ requests[r] = <<SourcemapSetRequest(<<"A">>, Some(valueB), FALSE)>>
        /\ Named(load(loaded[r]).children, "A") # {}
        /\ Named(top[r].children, "A") = {}
        /\ top[r].children[1] = valueB

IsRootUpsert(req) == req.path = <<>> /\ IsUpsert(req)

\* C18: empty-path upsert replaces the whole tree. The step of a request with
\* an empty path and a value never rejects and leaves `top` equal to the
\* value, under either flag; the request after it finds `top` equal to that
\* value, and is rejected exactly when its walk misses a child in that value.
C18_RootReplaced ==
    [][\A r \in Req :
          /\ Iterates(r) /\ IsRootUpsert(requests[r][next[r]]) =>
                /\ ~Rejects(r)
                /\ top'[r] = requests[r][next[r]].value[1]
          /\ Iterates(r) /\ next[r] > 1 /\ IsRootUpsert(requests[r][next[r] - 1]) =>
                LET value == requests[r][next[r] - 1].value[1]
                    req == requests[r][next[r]]
                IN  /\ top[r] = value
                    /\ req.path # <<>> =>
                          /\ Rejects(r) <=>
                                \E k \in 1..Len(req.path) : MissingAt(value, req.path, k)
                          /\ ~Rejects(r) =>
                                top'[r] = WithNodeAt(value, Front(req.path),
                                            NodeAt(top'[r], Front(req.path)))]_vars

\* Over a document with children the root was replaced, with
\* noOverwriteChildren set, by a value with one child named B, and the
\* upsert at B that followed replaced that child.
C18_Witness ==
    \E r \in Req :
        /\ Succeeded(r)
        /\ requests[r] = <<SourcemapSetRequest(<<>>, Some(valueA2), TRUE),
                           SourcemapSetRequest(<<"B">>, Some(valueB), FALSE)>>
        /\ load(loaded[r]).children # <<>>
        /\ top[r] = [valueA2 EXCEPT !.children = <<valueB>>]

\* C19: upsert of an absent name appends. When the parent reached has no
\* child named by the last segment, its children after the upsert are the
\* ones it had, in their order, followed by the value as given: with the
\* value's own children, whatever noOverwriteChildren says.
C19_AbsentNameAppends ==
    [][\A r \in Req :
          Sets(r) /\ IsUpsert(requests[r][next[r]]) =>
              LET req == requests[r][next[r]]
                  parent == NodeAt(top[r], Front(req.path))
                  after == NodeAt(top'[r], Front(req.path))
              IN  Named(parent.children, Last(req.path)) = {} =>
                      after.children = Append(parent.children, req.value[1])]_vars

\* Under the first child A, which had one child named B, the upsert at A/A
\* with noOverwriteChildren set added the value last, with its own child.
C19_Witness ==
    \E r \in Req :
        /\ Succeeded(r)
        /\ requests[r] = <<SourcemapSetRequest(<<"A", "A">>, Some(valueA2), TRUE)>>
        /\ load(loaded[r]) = Game(<<Folder("A", <<Leaf("B", "Script")>>)>>)
        /\ top[r] = Game(<<Folder("A", <<Leaf("B", "Script"), valueA2>>)>>)

RECURSIVE FrameAlong(_, _, _)
\* Whether u differs from t at most in the children of the node that `path`
\* leads to: every node on the way has its four own fields and, but for the
\* child the path goes through, its children, position by position.
FrameAlong(t, u, path) ==
    /\ u.name = t.name
    /\ u.class_name = t.class_name
    /\ u.plugin_managed = t.plugin_managed
    /\ u.file_paths = t.file_paths
    /\ path # <<>> =>
          LET i == Min(Named(t.children, Head(path))) IN
          /\ Len(u.children) = Len(t.children)
          /\ \A j \in 1..Len(t.children) : j # i => u.children[j] = t.children[j]
          /\ FrameAlong(t.children[i], u.children[i], Tail(path))

\* C20: frame of a request with a non-empty path. A step that applies one
\* changes nothing but the children of the parent its walk reached; there an
\* upsert leaves every child but the one it puts where it was, and a delete
\* leaves the children of other names as they were, in their order. A delete
\* whose walk finds the parent and whose name matches no child is not
\* rejected and leaves the whole tree as it was.
C20_Frame ==
    [][\A r \in Req :
          /\ Sets(r) =>
                LET req == requests[r][next[r]]
                    parent == NodeAt(top[r], Front(req.path))
                    after == NodeAt(top'[r], Front(req.path))
                    others(children) ==
                        SelectSeq(children, LAMBDA c : c.name # Last(req.path))
                IN  /\ FrameAlong(top[r], top'[r], Front(req.path))
                    /\ IsUpsert(req) =>
                          \A j \in 1..Len(parent.children) :
                              j # PutIndex(parent, Last(req.path))
                                  => after.children[j] = parent.children[j]
                    /\ IsDelete(req) => after.children = others(parent.children)
          /\ /\ Iterates(r)
             /\ requests[r][next[r]].path # <<>>
             /\ IsDelete(requests[r][next[r]])
             /\ HasNode(top[r], Front(requests[r][next[r]].path))
             /\ Named(NodeAt(top[r], Front(requests[r][next[r]].path)).children,
                      Last(requests[r][next[r]].path)) = {}
             => ~Rejects(r) /\ top'[r] = top[r]]_vars

\* The delete at B/A found no child named A under the first B and changed
\* nothing; the delete at A/B that followed removed both children named B of
\* the first A and left its child named A and the siblings of A in place.
C20_Witness ==
    \E r \in Req :
        /\ Succeeded(r)
        /\ requests[r] = <<SourcemapSetRequest(<<"B", "A">>, None, FALSE),
                           SourcemapSetRequest(<<"A", "B">>, None, FALSE)>>
        /\ Len(load(loaded[r]).children[1].children)
              > Len(top[r].children[1].children)
        /\ top[r] = Game(<<Folder("A", <<Leaf("A", "Part")>>),
                          Leaf("B", "Script"), Leaf("B", "Folder")>>)

\* Whether the paths of `list` are in strictly ascending order under `less`.
Ascending(list, less(_, _)) ==
    \A i, j \in 1..Len(list) : i < j => less(list[i], list[j])

\* C15 as stated: the list a query returns is in lexicographic order of the
\* path strings, each compared as a whole string.
C15_SortedByFullPath ==
    \A q \in Queries :
        listing[q] # None => Ascending(listing[q][1], ByteLess)

RECURSIVE Split(_)
\* The components of a path string: the pieces between its `/` separators.
Split(str) ==
    IF \E i \in 1..Len(str) : str[i] = 47
        THEN LET i == Min({k \in 1..Len(str) : str[k] = 47}) IN
             <<SubSeq(str, 1, i - 1)>> \o Split(SubSeq(str, i + 1, Len(str)))
        ELSE <<str>>

RECURSIVE ComponentsLess(_, _)
\* The order of paths compared component by component, each component as a
\* string, a path before the paths below it.
ComponentsLess(p, q) ==
    IF p = <<>> THEN q # <<>>
    ELSE IF q = <<>> THEN FALSE
    ELSE IF Head(p) = Head(q) THEN ComponentsLess(Tail(p), Tail(q))
    ELSE ByteLess(Head(p), Head(q))

\* C15: the list a query returns holds the scrape directory and every entry
\* below it once, in the order of their paths compared component by
\* component: a directory, then its contents, then the siblings of greater
\* file name.
C15_SortedByComponents ==
    \A q \in Queries :
        listing[q] # None =>
            LET list == listing[q][1]
                components == [i \in 1..Len(list) |-> Split(list[i])]
            IN  /\ Ascending(components, ComponentsLess)
                /\ {components[i] : i \in 1..Len(list)} =
                      {Split(StripAndReplace(ScrapeDirectory)) \o path :
                            path \in fs \cup {<<>>}}

\* A directory `a` holding an entry `b`, next to an entry `a.b`: the query
\* returned `C:/d/a/b` before `C:/d/a.b`, the greater string first.
C15_Witness ==
    \E q \in Queries :
        /\ listing[q] # None
        /\ {<<<<97>>>>, <<<<97>>, <<98>>>>, <<<<97, 46, 98>>>>} \subseteq fs
        /\ \E i, j \in 1..Len(listing[q][1]) :
              /\ i < j
              /\ listing[q][1][i] = <<67, 58, 47, 100, 47, 97, 47, 98>>
              /\ listing[q][1][j] = <<67, 58, 47, 100, 47, 97, 46, 98>>
              /\ ByteLess(listing[q][1][j], listing[q][1][i])

\* C16: scrape determinism. Two queries on the same directory tree return
\* the same list, whatever orders their read_dir calls gave the names in.
C16_ScrapeDeterministic ==
    \A q1, q2 \in Queries :
        listing[q1] # None /\ listing[q2] # None => listing[q1] = listing[q2]

\* Both queries were answered on a directory of three entries that the file
\* system handed out in different orders.
C16_Witness ==
    /\ \A q \in Queries : listing[q] # None
    /\ Cardinality({path \in fs : Len(path) = 1}) = Cardinality(FileNames)
    /\ read_dir(fs, <<>>, enumeration["first"])
          # read_dir(fs, <<>>, enumeration["second"])
    /\ listing["first"] = listing["second"]

====
